---- MODULE Spec2Model ----
(***************************************************************************)
(* Model of the implements-clause mixin                                    *)
(* (src/src/compiler/base/ImplementsClauseableNode.ts) and of the          *)
(* get-accessor structure printer                                          *)
(* (src/src/structurePrinters/class/GetAccessorDeclarationStructurePrinter *)
(* .ts).                                                                   *)
(*                                                                         *)
(* The source text of the class declaration is a sequence of lexemes: each *)
(* whitespace character is one element, every other element is a token.   *)
(* Concatenating the elements gives the text, so a splice of the sequence  *)
(* is a splice of the text.  The heritage clauses and the implements list  *)
(* are never stored: they are parsed from the text on every call, as the   *)
(* wrapped compiler tree is.  A node is identified by its position in the  *)
(* text.                                                                   *)
(***************************************************************************)
EXTENDS Integers, Sequences, FiniteSets

VARIABLES
    start,      \* the class text at construction (never changes)
    text,       \* the current class text
    pre,        \* the class text when the last call was made
    call,       \* the last call on the class and its arguments
    ret,        \* what the last call returned or threw
    added,      \* the texts added so far, while every call was addImplements
    options,    \* the printer's constructor options
    structure,  \* the structure handed to printText
    writer      \* what the writer has received

vars == <<start, text, pre, call, ret, added, options, structure, writer>>

---------------------------------------------------------------------------
(* Bounds of the model *)

\* the implements list never grows beyond this many entries
MaxImpl == 4
\* the longest array of texts handed to one add/insert call
MaxTexts == 2

---------------------------------------------------------------------------
(* Lexemes *)

Whitespace == {" ", "\n"}
\* well-formed type reference texts
TypeTexts == {"A", "B"}
\* a text made of whitespace only
Blank == " "
NoText == ""

RECURSIVE SortedSeq(_)
\* the elements of a finite set of numbers in increasing order
SortedSeq(S) ==
    IF S = {} THEN <<>>
    ELSE LET m == CHOOSE x \in S : \A y \in S : x <= y
         IN <<m>> \o SortedSeq(S \ {m})

\* fullText.substring(0, pos) + newText + fullText.substring(pos), where the
\* insertion goes in front of element pos
Splice(t, pos, new) == SubSeq(t, 1, pos - 1) \o new \o SubSeq(t, pos, Len(t))

\* fullText.substring(0, from) + fullText.substring(to): elements from..to go
Cut(t, from, to) == SubSeq(t, 1, from - 1) \o SubSeq(t, to + 1, Len(t))

RECURSIVE Join(_)
\* texts.join(", ")
Join(texts) ==
    IF Len(texts) = 0 THEN <<>>
    ELSE IF Len(texts) = 1 THEN <<texts[1]>>
    ELSE <<texts[1], ",", " ">> \o Join(Tail(texts))

---------------------------------------------------------------------------
(* The parsed tree: heritage clauses of the class *)

\* this.getFirstChildByKindOrThrow(OpenBraceToken).getStart()
GetOpenBraceStart(t) ==
    CHOOSE i \in 1..Len(t) : t[i] = "{" /\ \A j \in 1..(i - 1) : t[j] # "{"

\* positions of the type expressions between a clause keyword and its end
TypesBetween(t, from, to) ==
    SortedSeq({j \in (from + 1)..(to - 1) : t[j] \notin Whitespace \cup {","}})

\* HeritageClauseableNode.getHeritageClauses(): the clauses in text order,
\* each with its keyword, the keyword's position and its types
getHeritageClauses(t) ==
    LET brace == GetOpenBraceStart(t)
        ks == SortedSeq({i \in 1..(brace - 1) : t[i] \in {"extends", "implements"}})
    IN [i \in 1..Len(ks) |->
            [token |-> t[ks[i]],
             pos |-> ks[i],
             types |-> TypesBetween(t, ks[i], IF i < Len(ks) THEN ks[i + 1] ELSE brace)]]

\* index of the first clause whose token is the implements keyword, 0 if none
getImplementsHeritageClause(heritageClauses) ==
    IF \E i \in 1..Len(heritageClauses) : heritageClauses[i].token = "implements"
    THEN CHOOSE i \in 1..Len(heritageClauses) :
            /\ heritageClauses[i].token = "implements"
            /\ \A j \in 1..(i - 1) : heritageClauses[j].token # "implements"
    ELSE 0

\* getImplements(heritageClauses): the positions of the implements types
getImplementsOf(heritageClauses) ==
    LET implementsClause == getImplementsHeritageClause(heritageClauses)
    IN IF implementsClause = 0 THEN <<>> ELSE heritageClauses[implementsClause].types

getImplements(t) == getImplementsOf(getHeritageClauses(t))

\* the texts of the nodes at the given positions
TextsOf(t, nodes) == [i \in 1..Len(nodes) |-> t[nodes[i]]]

ImplementsTexts(t) == TextsOf(t, getImplements(t))

\* end position of a clause: its last type, or its keyword when it has none
ClauseEnd(clause) ==
    IF Len(clause.types) = 0 THEN clause.pos ELSE clause.types[Len(clause.types)]

---------------------------------------------------------------------------
(* Results of a call *)

NoneExistMessage == "Cannot remove an implements when none exist."
InvalidIndexMessage == "Invalid index"
WhitespaceMessage == "ArgumentNullOrWhitespaceError"
ForgottenMessage == "Attempted to get information from a node that was removed or forgotten."
UndefinedMessage == "TypeError"

NoReturn == [kind |-> "none", nodes |-> <<>>, error |-> NoText]
This == [kind |-> "this", nodes |-> <<>>, error |-> NoText]
NodesResult(nodes) == [kind |-> "nodes", nodes |-> nodes, error |-> NoText]
NodeResult(nodes) == [kind |-> "node", nodes |-> nodes, error |-> NoText]
Thrown(message) == [kind |-> "error", nodes |-> <<>>, error |-> message]

\* a call that throws before any manipulation leaves the text as it was
Throw(t, message) == [text |-> t, ret |-> Thrown(message)]

---------------------------------------------------------------------------
(* The manipulation helpers imported from "./../../manipulation" *)

\* verifyAndGetIndex(index, length): a negative index counts from length;
\* an index above length or below -length is rejected
verifyAndGetIndex(index, length) ==
    LET newIndex == IF index < 0 THEN length + index ELSE index
    IN [ok |-> ~(newIndex < 0) /\ ~(index > length), index |-> newIndex]

\* getNodeOrNodesToReturn(nodes, index, length): the slice of length nodes
\* from index when length > 0, the single node nodes[index] otherwise
getNodeOrNodesToReturn(nodes, index, length) ==
    IF length > 0
    THEN NodesResult(SubSeq(nodes, IF index < 0 THEN 1 ELSE index + 1,
                            IF index + length < Len(nodes) THEN index + length ELSE Len(nodes)))
    ELSE NodeResult(IF index + 1 \in 1..Len(nodes) THEN <<nodes[index + 1]>> ELSE <<>>)

\* insertIntoCommaSeparatedNodes: in front of the node now at insertIndex
\* goes "T1, T2, "; with no such node, ", T1, T2" goes after the last one
insertIntoCommaSeparatedNodes(t, currentNodes, insertIndex, newTexts) ==
    IF insertIndex + 1 \in 1..Len(currentNodes)
    THEN Splice(t, currentNodes[insertIndex + 1], Join(newTexts) \o <<",", " ">>)
    ELSE IF insertIndex \in 1..Len(currentNodes)
    THEN Splice(t, currentNodes[insertIndex] + 1, <<",", " ">> \o Join(newTexts))
    ELSE t

\* insertIntoCreatableSyntaxList: newText goes in at insertPos; the syntax
\* list is created when the class has none
insertIntoCreatableSyntaxList(t, insertPos, newText) == Splice(t, insertPos, newText)

\* first position of the run of spaces that ends right before from
PrecedingSpaces(t, from) ==
    CHOOSE p \in 1..from :
        /\ \A j \in p..(from - 1) : t[j] = " "
        /\ (p = 1 \/ t[p - 1] # " ")

\* last position of the run of spaces that starts right after to
FollowingSpaces(t, to) ==
    CHOOSE e \in to..Len(t) :
        /\ \A j \in (to + 1)..e : t[j] = " "
        /\ (e = Len(t) \/ t[e + 1] # " ")

\* removeChildren({children, removePrecedingSpaces, removeFollowingSpaces}):
\* the children span from..to
removeChildren(t, from, to, removePrecedingSpaces, removeFollowingSpaces) ==
    Cut(t,
        IF removePrecedingSpaces THEN PrecedingSpaces(t, from) ELSE from,
        IF removeFollowingSpaces THEN FollowingSpaces(t, to) ELSE to)

\* position of the next token after p that is not whitespace
NextToken(t, p) ==
    CHOOSE q \in (p + 1)..Len(t) :
        t[q] \notin Whitespace /\ \A j \in (p + 1)..(q - 1) : t[j] \in Whitespace

\* position of the previous token before p that is not whitespace
PreviousToken(t, p) ==
    CHOOSE q \in 1..(p - 1) :
        t[q] \notin Whitespace /\ \A j \in (q + 1)..(p - 1) : t[j] \in Whitespace

\* removeCommaSeparatedChild(child, {removePrecedingSpaces}): the child goes
\* with the comma after it, or, when it is the last of its list, with the
\* comma before it; following spaces go when the first child is removed
removeCommaSeparatedChild(t, child, removePrecedingSpaces) ==
    LET hasNextComma == t[NextToken(t, child)] = ","
        hasPreviousComma == ~hasNextComma /\ t[PreviousToken(t, child)] = ","
        from == IF hasPreviousComma THEN PreviousToken(t, child) ELSE child
        to == IF hasNextComma THEN NextToken(t, child) ELSE child
        isFirst == t[PreviousToken(t, child)] \in {"extends", "implements"}
    IN removeChildren(t, from, to, removePrecedingSpaces, isFirst)

\* errors.throwIfNotStringOrWhitespace: whether the text is whitespace only
IsWhitespaceOnly(s) == s = Blank \/ s = NoText

---------------------------------------------------------------------------
(* ImplementsClauseableNode: arguments *)

\* insertImplements / addImplements: a single text or an array of texts.
\* The entries of an array are type texts: the array overload validates none
\* of them, and what a blank entry parses to is decided outside this mixin.
Str(s) == [form |-> "string", texts |-> <<s>>]
Arr(ts) == [form |-> "array", texts |-> ts]

\* removeImplements: an index, or a node.  A node is one of this class's
\* implements entries ("own", at position pos of the text), a live node
\* that belongs to another declaration ("foreign"), or a node that was
\* removed earlier ("forgotten").
ByIndex(i) == [form |-> "index", index |-> i, kind |-> "none", pos |-> 0]
ByNode(kind, pos) == [form |-> "node", index |-> 0, kind |-> kind, pos |-> pos]

---------------------------------------------------------------------------
(* ImplementsClauseableNode: insertImplements and addImplements *)

\* variant: the length taken after the string was wrapped into an array
ReturnLengthAfterNormalise(arg) == Len(arg.texts)
\* const length = texts instanceof Array ? texts.length : 0
ReturnLength(arg) == IF arg.form = "array" THEN Len(arg.texts) ELSE 0

\* variant: the index is not checked against the number of entries
VerifyInsertIndexUnchecked(index, implementsTypes) ==
    [ok |-> index >= 0, index |-> index]
\* index = verifyAndGetIndex(index, implementsTypes.length)
VerifyInsertIndex(index, implementsTypes) ==
    verifyAndGetIndex(index, Len(implementsTypes))

\* variant: the texts always go behind the last entry
InsertIntoExistingAtEnd(t, implementsTypes, index, texts) ==
    insertIntoCommaSeparatedNodes(t, implementsTypes, Len(implementsTypes), texts)
\* insertIntoCommaSeparatedNodes({parent, currentNodes: implementsTypes,
\*                                insertIndex: index, newTexts: texts})
InsertIntoExisting(t, implementsTypes, index, texts) ==
    insertIntoCommaSeparatedNodes(t, implementsTypes, index, texts)

\* /\s/.test(this.getSourceFile().getFullText()[openBraceStart - 1])
IsLastSpace(t, openBraceStart) == t[openBraceStart - 1] \in Whitespace

\* variant: no space is put in front when the brace follows a token
InsertTextNoSpace(texts, isLastSpace) ==
    <<"implements", " ">> \o Join(texts) \o <<" ">>
\* let insertText = `implements ${texts.join(", ")} `;
\* if (!isLastSpace) insertText = " " + insertText;
InsertText(texts, isLastSpace) ==
    LET insertText == <<"implements", " ">> \o Join(texts) \o <<" ">>
    IN IF ~isLastSpace THEN <<" ">> \o insertText ELSE insertText

\* the branch that creates the implements clause in front of the open brace
CreateImplements(t, texts) ==
    LET openBraceStart == GetOpenBraceStart(t)
    IN insertIntoCreatableSyntaxList(t, openBraceStart,
                                     InsertText(texts, IsLastSpace(t, openBraceStart)))

insertImplements(t, index, arg) ==
    LET length == ReturnLength(arg)
    IN IF arg.form = "string" /\ IsWhitespaceOnly(arg.texts[1])
       THEN Throw(t, WhitespaceMessage)
       ELSE IF arg.form = "array" /\ Len(arg.texts) = 0
       THEN [text |-> t, ret |-> NodesResult(<<>>)]
       ELSE
         LET texts == arg.texts
             heritageClauses == getHeritageClauses(t)
             implementsTypes == getImplementsOf(heritageClauses)
             verified == VerifyInsertIndex(index, implementsTypes)
         IN IF ~verified.ok
            THEN Throw(t, InvalidIndexMessage)
            ELSE
              LET new == IF Len(implementsTypes) > 0
                         THEN InsertIntoExisting(t, implementsTypes, verified.index, texts)
                         ELSE CreateImplements(t, texts)
              IN [text |-> new,
                  ret |-> getNodeOrNodesToReturn(getImplements(new), verified.index, length)]

\* variant: addImplements inserts at the front
AddIndexFront(t) == 0
\* this.getImplements().length, the index addImplements inserts at
AddIndex(t) == Len(getImplements(t))

addImplements(t, arg) == insertImplements(t, AddIndex(t), arg)

---------------------------------------------------------------------------
(* ImplementsClauseableNode: removeImplements *)

\* variant: the empty list is not rejected
NoneExistNever(implementsNodes) == FALSE
\* if (implementsNodes.length === 0) throw ...
NoneExist(implementsNodes) == Len(implementsNodes) = 0

\* variant: the index is verified against length instead of length - 1
getImplementsFromIndexUpToLength(implementsNodes, index) ==
    LET verified == verifyAndGetIndex(index, Len(implementsNodes))
    IN [ok |-> verified.ok,
        pos |-> IF verified.ok /\ verified.index + 1 \in 1..Len(implementsNodes)
                THEN implementsNodes[verified.index + 1] ELSE 0]
\* implementsNodes[verifyAndGetIndex(index, implementsNodes.length - 1)];
\* pos 0 stands for undefined
getImplementsFromIndex(implementsNodes, index) ==
    LET verified == verifyAndGetIndex(index, Len(implementsNodes) - 1)
    IN [ok |-> verified.ok,
        pos |-> IF verified.ok /\ verified.index + 1 \in 1..Len(implementsNodes)
                THEN implementsNodes[verified.index + 1] ELSE 0]

\* variant: heritageClauses[0] is removed, whichever clause it is
RemoveOnlyImplementsFirstClause(t, heritageClauses) ==
    removeChildren(t, heritageClauses[1].pos, ClauseEnd(heritageClauses[1]), TRUE, FALSE)
\* the branch for implementsNodes.length === 1: the whole heritage syntax
\* list goes when the implements clause is the only clause, otherwise the
\* implements clause alone
RemoveOnlyImplements(t, heritageClauses) ==
    IF Len(heritageClauses) = 1
    THEN removeChildren(t, heritageClauses[1].pos,
                        ClauseEnd(heritageClauses[Len(heritageClauses)]), TRUE, FALSE)
    ELSE LET clause == heritageClauses[getImplementsHeritageClause(heritageClauses)]
         IN removeChildren(t, clause.pos, ClauseEnd(clause), TRUE, FALSE)

\* the branch for more than one implements entry:
\* removeCommaSeparatedChild(implementsNodeToRemove, {removePrecedingSpaces:
\*     implementsNodeToRemove !== implementsNodes[0]})
RemoveOneOfMany(t, implementsNodes, node) ==
    IF node.kind = "own" /\ node.pos > 0
    THEN [text |-> removeCommaSeparatedChild(t, node.pos, node.pos # implementsNodes[1]),
          ret |-> This]
    ELSE IF node.kind = "foreign"
    THEN [text |-> t, ret |-> This]    \* the node's own declaration is edited, not this class
    ELSE IF node.kind = "forgotten"
    THEN Throw(t, ForgottenMessage)
    ELSE Throw(t, UndefinedMessage)

removeImplements(t, arg) ==
    LET implementsNodes == getImplements(t)
    IN IF NoneExist(implementsNodes)
       THEN Throw(t, NoneExistMessage)
       ELSE
         LET fromIndex == getImplementsFromIndex(implementsNodes, arg.index)
             implementsNodeToRemove ==
                 IF arg.form = "index"
                 THEN [kind |-> "own", pos |-> fromIndex.pos]
                 ELSE [kind |-> arg.kind, pos |-> arg.pos]
         IN IF arg.form = "index" /\ ~fromIndex.ok
            THEN Throw(t, InvalidIndexMessage)
            ELSE IF Len(implementsNodes) = 1
            THEN [text |-> RemoveOnlyImplements(t, getHeritageClauses(t)), ret |-> This]
            ELSE RemoveOneOfMany(t, implementsNodes, implementsNodeToRemove)

---------------------------------------------------------------------------
(* GetAccessorDeclarationStructurePrinter *)

\* what the writer receives: the text and the part of the accessor it is
Written(part, txt) == [part |-> part, text |-> txt]

WriteEach(part, items) == [i \in 1..Len(items) |-> Written(part, items[i])]

\* this.factory.forJSDoc().printDocs(writer, structure.docs)
printDocs(st) == WriteEach("docs", st.docs)

\* this.factory.forDecorator().printTexts(writer, structure.decorators)
printDecorators(st) == WriteEach("decorators", st.decorators)

\* this.factory.forModifierableNode().printText(writer, structure)
printModifiers(st) ==
    (IF st.isAbstract = "true" THEN <<Written("modifiers", "abstract ")>> ELSE <<>>)
    \o (IF st.scope # NoText THEN <<Written("modifiers", st.scope)>> ELSE <<>>)
    \o (IF st.isStatic THEN <<Written("modifiers", "static ")>> ELSE <<>>)

\* this.factory.forTypeParameterDeclaration().printTextsWithBrackets(...)
printTypeParameters(st) ==
    IF Len(st.typeParameters) = 0 THEN <<>>
    ELSE <<Written("typeParameters", "<")>>
         \o WriteEach("typeParameters", st.typeParameters)
         \o <<Written("typeParameters", ">")>>

\* this.factory.forParameterDeclaration().printTexts(writer, structure.parameters)
printParameters(st) == WriteEach("parameters", st.parameters)

\* this.factory.forReturnTypedNode().printText(writer, structure)
printReturnType(st) ==
    IF st.returnType = NoText THEN <<>>
    ELSE <<Written("returnType", ": "), Written("returnType", st.returnType)>>

\* this.factory.forBodyText(this.options).printText(writer, structure)
printBodyText(st) ==
    IF st.bodyText = NoText THEN <<>> ELSE <<Written("body", st.bodyText)>>

\* writer.spaceIfLastNot()
spaceIfLastNot(w) ==
    IF Len(w) > 0 /\ w[Len(w)].text = " " THEN w ELSE w \o <<Written("space", " ")>>

\* writer.inlineBlock(() => ...)
inlineBlock(w, body) == w \o <<Written("block", "{")>> \o body \o <<Written("block", "}")>>

\* variant: an abstract accessor gets a body
WritesSemicolonAmbientOnly(opts, st) == opts.isAmbient
\* if (this.options.isAmbient || structure.isAbstract)
WritesSemicolon(opts, st) == opts.isAmbient \/ st.isAbstract = "true"

printText(w, opts, st) ==
    LET head == w \o printDocs(st)
                  \o printDecorators(st)
                  \o printModifiers(st)
                  \o <<Written("get", "get "), Written("get", st.name)>>
                  \o printTypeParameters(st)
                  \o <<Written("open", "(")>>
                  \o printParameters(st)
                  \o <<Written("close", ")")>>
                  \o printReturnType(st)
    IN IF WritesSemicolon(opts, st)
       THEN head \o <<Written("semicolon", ";")>>
       ELSE inlineBlock(spaceIfLastNot(head), printBodyText(st))

---------------------------------------------------------------------------
(* Inputs *)

\* all sequences over S of length at most n
SeqsUpTo(S, n) == UNION {[1..k -> S] : k \in 0..n}

\* whitespace between the class header and the open brace
Gaps == {<<>>, <<" ">>, <<"\n">>, <<" ", " ">>}
BaseClasses == {<<>>, <<"Base">>}

\* a well-formed class declaration
ClassText(base, impl, gap) ==
    <<"class", " ", "C">>
    \o (IF base = <<>> THEN <<>> ELSE <<" ", "extends", " ">> \o base)
    \o (IF impl = <<>> THEN <<>> ELSE <<" ", "implements", " ">> \o Join(impl))
    \o gap \o <<"{", "}">>

InitialLists == {<<>>, <<"A", "B">>}

InitialTexts ==
    {ClassText(base, impl, gap) :
        base \in BaseClasses, impl \in InitialLists, gap \in Gaps}

\* the indexes tried on a class with n implements entries: negative ones,
\* every valid one, and one past the end of the list
Indexes(n) == (-2)..(n + 1)

InsertArgs ==
    {Str(s) : s \in TypeTexts \cup {Blank}} \cup {Arr(ts) : ts \in SeqsUpTo(TypeTexts, MaxTexts)}

RemoveArgs(t) ==
    {ByIndex(i) : i \in Indexes(Len(getImplements(t)))}
    \cup {ByNode("own", getImplements(t)[k]) : k \in 1..Len(getImplements(t))}
    \cup {ByNode("foreign", 0), ByNode("forgotten", 0)}

Structures ==
    [docs : {<<>>, <<"/** doc */">>},
     decorators : {<<>>, <<"@dec">>},
     scope : {NoText, "public "},
     isStatic : BOOLEAN,
     isAbstract : {"true", "false", "undefined"},
     name : {"prop"},
     typeParameters : {<<>>, <<"T">>},
     parameters : {<<>>, <<"p">>},
     returnType : {NoText, "number"},
     bodyText : {NoText, "return 1;"}]

NoCall == [op |-> "none", form |-> "none", index |-> 0, texts |-> <<>>,
           kind |-> "none", pos |-> 0]
InsertCall(op, index, arg) ==
    [op |-> op, form |-> arg.form, index |-> index, texts |-> arg.texts,
     kind |-> "none", pos |-> 0]
RemoveCall(arg) ==
    [op |-> "remove", form |-> arg.form, index |-> arg.index, texts |-> <<>>,
     kind |-> arg.kind, pos |-> arg.pos]

IdleStructure ==
    [docs |-> <<>>, decorators |-> <<>>, scope |-> NoText, isStatic |-> FALSE,
     isAbstract |-> "undefined", name |-> "prop", typeParameters |-> <<>>,
     parameters |-> <<>>, returnType |-> NoText, bodyText |-> NoText]
IdleOptions == [isAmbient |-> FALSE]

---------------------------------------------------------------------------
(* The class under manipulation *)

ClassInit ==
    /\ start \in InitialTexts
    /\ text = start
    /\ pre = start
    /\ call = NoCall
    /\ ret = NoReturn
    /\ added = [only |-> TRUE, texts |-> <<>>]

PrinterIdle ==
    /\ options = IdleOptions
    /\ structure = IdleStructure
    /\ writer = <<>>

Init == ClassInit /\ PrinterIdle

\* the class after a call, with the call and its result recorded
Called(c, r) ==
    /\ pre' = text
    /\ call' = c
    /\ text' = r.text
    /\ ret' = r.ret
    /\ added' = IF c.op = "add" /\ added.only
                THEN [only |-> TRUE,
                      texts |-> added.texts
                                \o (IF r.ret.kind = "error" THEN <<>> ELSE c.texts)]
                ELSE [only |-> FALSE, texts |-> <<>>]
    /\ UNCHANGED <<start, options, structure, writer>>

\* a call is made once the result of the one before has been dropped
InsertImplements ==
    /\ call = NoCall
    /\ LET n == Len(getImplements(text))
       IN \E index \in Indexes(n), arg \in InsertArgs :
            /\ n + Len(arg.texts) <= MaxImpl
            /\ Called(InsertCall("insert", index, arg), insertImplements(text, index, arg))

AddImplements ==
    /\ call = NoCall
    /\ LET n == Len(getImplements(text))
       IN \E arg \in InsertArgs :
            /\ n + Len(arg.texts) <= MaxImpl
            /\ Called(InsertCall("add", 0, arg), addImplements(text, arg))

RemoveImplements ==
    /\ call = NoCall
    /\ \E arg \in RemoveArgs(text) :
            Called(RemoveCall(arg), removeImplements(text, arg))

\* the caller drops the result of the last call; the class stays as it is
DropResult ==
    /\ call # NoCall
    /\ pre' = text
    /\ call' = NoCall
    /\ ret' = NoReturn
    /\ UNCHANGED <<start, text, added, options, structure, writer>>

Next == InsertImplements \/ AddImplements \/ RemoveImplements \/ DropResult

Spec == Init /\ [][Next]_vars

---------------------------------------------------------------------------
(* The printer *)

ClassIdle ==
    /\ start = ClassText(<<>>, <<>>, <<" ">>)
    /\ text = start
    /\ pre = start
    /\ call = NoCall
    /\ ret = NoReturn
    /\ added = [only |-> TRUE, texts |-> <<>>]

PrinterInit ==
    /\ ClassIdle
    /\ options \in [isAmbient : BOOLEAN]
    /\ structure \in Structures
    /\ writer = <<>>

PrintText ==
    /\ writer = <<>>
    /\ writer' = printText(writer, options, structure)
    /\ UNCHANGED <<start, text, pre, call, ret, added, options, structure>>

PrinterNext == PrintText

PrinterSpec == PrinterInit /\ [][PrinterNext]_vars

---------------------------------------------------------------------------
(* Properties of the implements-clause operations *)

\* the implements list before and after the last call
Before == ImplementsTexts(pre)
After == ImplementsTexts(text)

\* a sequence without its k-th element
Without(seq, k) == SubSeq(seq, 1, k - 1) \o SubSeq(seq, k + 1, Len(seq))

\* the last call passed texts that name types: a non-empty array, or a
\* single text that is not blank
PassedTexts ==
    /\ Len(call.texts) > 0
    /\ \A i \in 1..Len(call.texts) : call.texts[i] \in TypeTexts

\* the clauses of a text as keyword and type texts, positions left out
ClauseTexts(t) ==
    LET hcs == getHeritageClauses(t)
    IN [i \in 1..Len(hcs) |-> [token |-> hcs[i].token, types |-> TextsOf(t, hcs[i].types)]]

ImplementsClauses(t) ==
    {i \in 1..Len(ClauseTexts(t)) : ClauseTexts(t)[i].token = "implements"}

ExtendsClauses(t) ==
    SelectSeq(ClauseTexts(t), LAMBDA c : c.token = "extends")

\* C1: insertImplements(index, texts) with 0 <= index <= n and a non-empty
\* array makes the list L[0..index) ++ texts ++ L[index..n): its length is
\* n + |texts|, nothing is dropped or reordered, and the nodes returned are
\* the entries at index .. index + |texts| - 1 of the new list.
C1_InsertSplicesTexts ==
    (/\ call.op = "insert"
     /\ call.form = "array"
     /\ PassedTexts
     /\ call.index \in 0..Len(Before))
    => /\ After = SubSeq(Before, 1, call.index) \o call.texts
                  \o SubSeq(Before, call.index + 1, Len(Before))
       /\ Len(After) = Len(Before) + Len(call.texts)
       /\ ret.kind = "nodes"
       /\ ret.nodes = SubSeq(getImplements(text), call.index + 1,
                             call.index + Len(call.texts))
       /\ TextsOf(text, ret.nodes) = call.texts

\* two texts were inserted between two existing entries
C1_Witness ==
    /\ call.op = "insert"
    /\ call.form = "array"
    /\ Len(call.texts) = 2
    /\ call.texts[1] # call.texts[2]
    /\ call.index > 0
    /\ call.index < Len(Before)
    /\ ret.kind = "nodes"
    /\ Len(After) = Len(Before) + 2

\* C2: addImplements(text) has the effect and the result of
\* insertImplements(n, text), n being the number of entries at the call; while
\* only addImplements has been called, the list is the original list followed
\* by the added texts in call order.
C2_AddAppends ==
    /\ call.op = "add"
       => /\ [text |-> text, ret |-> ret]
             = insertImplements(pre, Len(getImplements(pre)),
                                [form |-> call.form, texts |-> call.texts])
          /\ (ret.kind # "error" => After = Before \o call.texts)
    /\ added.only => After = ImplementsTexts(start) \o added.texts

\* a second addImplements call appended to a list that was not empty
C2_Witness ==
    /\ call.op = "add"
    /\ added.only
    /\ Len(added.texts) > Len(call.texts)
    /\ Len(call.texts) > 0
    /\ ret.kind # "error"
    /\ Len(Before) > 0

\* C3: for a valid index and a non-blank text t, insertImplements(index, t)
\* leaves the class in the state insertImplements(index, [t]) leaves it in;
\* the string form returns the one node at the index, the array form an
\* array of |texts| nodes.
C3_SingularPluralCollapse ==
    (/\ call.op = "insert"
     /\ call.form = "string"
     /\ PassedTexts
     /\ call.index >= -Len(Before)
     /\ call.index <= Len(Before))
    => LET plural == insertImplements(pre, call.index, Arr(call.texts))
           at == IF call.index < 0 THEN Len(Before) + call.index ELSE call.index
       IN /\ text = plural.text
          /\ ret.kind = "node"
          /\ ret.nodes = <<getImplements(text)[at + 1]>>
          /\ text[ret.nodes[1]] = call.texts[1]
          /\ plural.ret.kind = "nodes"
          /\ Len(plural.ret.nodes) = Len(call.texts)
          /\ plural.ret.nodes = ret.nodes

\* a single text was inserted into an existing list
C3_Witness ==
    /\ call.op = "insert"
    /\ call.form = "string"
    /\ PassedTexts
    /\ Len(Before) > 0
    /\ ret.kind = "node"
    /\ Len(After) = Len(Before) + 1

\* C4: insertImplements(index, texts) with non-empty texts and an index above
\* the number of entries fails and leaves the list and the text unchanged,
\* whether the implements clause exists or has to be created.
C4_InsertIndexValidated ==
    (/\ call.op = "insert"
     /\ Len(call.texts) > 0
     /\ call.index > Len(Before))
    => /\ ret.kind = "error"
       /\ PassedTexts => ret.error = InvalidIndexMessage
       /\ text = pre
       /\ After = Before

\* an index past the end was rejected on a class without implements clause
C4_Witness ==
    /\ call.op = "insert"
    /\ PassedTexts
    /\ call.index > Len(Before)
    /\ Len(Before) = 0
    /\ ExtendsClauses(pre) # <<>>
    /\ ret.error = InvalidIndexMessage

\* C5: removeImplements, by index or by node, on a class without implements
\* entries throws "Cannot remove an implements when none exist." whatever the
\* argument is and changes neither the heritage clauses nor the text.
C5_RemoveFromNoneThrows ==
    (call.op = "remove" /\ Len(Before) = 0)
    => /\ ret = Thrown(NoneExistMessage)
       /\ text = pre
       /\ getHeritageClauses(text) = getHeritageClauses(pre)

\* a node was handed to removeImplements on a class without implements
C5_Witness ==
    /\ call.op = "remove"
    /\ call.form = "node"
    /\ Len(Before) = 0
    /\ ret.kind = "error"

\* C6: with n >= 1 entries, removeImplements(i) for 0 <= i <= n-1 leaves the
\* list without its i-th entry, the others in order; an index i >= n is
\* rejected with an error and removes nothing, also when n = 1.
C6_RemoveByIndex ==
    (/\ call.op = "remove"
     /\ call.form = "index"
     /\ Len(Before) >= 1)
    => /\ call.index \in 0..(Len(Before) - 1)
          => /\ After = Without(Before, call.index + 1)
             /\ Len(After) = Len(Before) - 1
             /\ ret.kind = "this"
       /\ call.index >= Len(Before)
          => /\ ret.kind = "error"
             /\ text = pre

\* an index past the end was rejected on a class with one implements entry
C6_Witness ==
    /\ call.op = "remove"
    /\ call.form = "index"
    /\ Len(Before) = 1
    /\ call.index >= 1
    /\ ret.kind = "error"

\* C7: removeImplements(implementsNode) removes the node passed in and only
\* that one: no other implements entry of the class is removed, whatever
\* the node is.
C7_RemoveByNodeOnlyThatNode ==
    (call.op = "remove" /\ call.form = "node")
    => IF call.kind = "own"
       THEN \E k \in 1..Len(Before) :
                getImplements(pre)[k] = call.pos /\ After = Without(Before, k)
       ELSE After = Before

\* C9: on a class without implements entries, insertImplements(0, texts)
\* splices "implements T1, T2 " in at the open brace, with one space in front
\* exactly when the character before the brace is not whitespace; the text
\* before the brace and from the brace on is kept, and an extends clause stays
\* in front of the new clause.
C9_ClauseCreatedAtOpenBrace ==
    (/\ call.op = "insert"
     /\ PassedTexts
     /\ call.index = 0
     /\ Len(Before) = 0)
    => LET brace == GetOpenBraceStart(pre)
           lead == IF pre[brace - 1] \in Whitespace THEN <<>> ELSE <<" ">>
           inserted == lead \o <<"implements", " ">> \o Join(call.texts) \o <<" ">>
       IN /\ text = SubSeq(pre, 1, brace - 1) \o inserted \o SubSeq(pre, brace, Len(pre))
          /\ Len(text) = Len(pre) + Len(inserted)
          /\ ClauseTexts(text)
             = ClauseTexts(pre) \o <<[token |-> "implements", types |-> call.texts]>>

\* the clause was created right behind an extends clause, with no whitespace
\* in front of the open brace
C9_Witness ==
    /\ call.op = "insert"
    /\ Len(call.texts) = 2
    /\ call.index = 0
    /\ Len(Before) = 0
    /\ ExtendsClauses(pre) # <<>>
    /\ pre[GetOpenBraceStart(pre) - 1] \notin Whitespace
    /\ ret.kind = "nodes"

\* C10: after any sequence of add/insert/removeImplements calls an implements
\* clause exists exactly when getImplements() is not empty, there is at most
\* one, and the extends clause of the original class is there with its types;
\* removing the only entry removes the whole clause, and the extends clause
\* stays when there is one.
C10_ClauseExistsIffEntries ==
    /\ ImplementsClauses(text) # {} <=> Len(getImplements(text)) > 0
    /\ Cardinality(ImplementsClauses(text)) <= 1
    /\ ExtendsClauses(text) = ExtendsClauses(start)
    /\ (call.op = "remove" /\ Len(Before) = 1 /\ ret.kind = "this")
       => /\ ImplementsClauses(text) = {}
          /\ ClauseTexts(text) = ExtendsClauses(pre)
          /\ \A i \in 1..Len(text) : text[i] # "implements"

\* the only implements entry of a class with an extends clause was removed
C10_Witness ==
    /\ call.op = "remove"
    /\ Len(Before) = 1
    /\ ret.kind = "this"
    /\ ExtendsClauses(pre) # <<>>
    /\ After = <<>>

---------------------------------------------------------------------------
(* Properties of the printer *)

\* the place of each part in the accessor
Rank(part) ==
    CASE part = "docs" -> 1
      [] part = "decorators" -> 2
      [] part = "modifiers" -> 3
      [] part = "get" -> 4
      [] part = "typeParameters" -> 5
      [] part = "open" -> 6
      [] part = "parameters" -> 7
      [] part = "close" -> 8
      [] part = "returnType" -> 9
      [] OTHER -> 10

Count(w, part) == Cardinality({i \in 1..Len(w) : w[i].part = part})

\* C8: printText writes docs, decorators, modifiers, "get <name>", type
\* parameters, "(", parameters, ")", return type in this order, and then ";"
\* without a body exactly when options.isAmbient or structure.isAbstract is
\* true; otherwise one block in braces and no ";".
C8_PrinterOrderAndEnding ==
    writer # <<>>
    => /\ \A i, j \in 1..Len(writer) :
              i < j => Rank(writer[i].part) <= Rank(writer[j].part)
       /\ Count(writer, "docs") = Len(structure.docs)
       /\ Count(writer, "decorators") = Len(structure.decorators)
       /\ Count(writer, "parameters") = Len(structure.parameters)
       /\ Count(writer, "typeParameters") > 0 <=> structure.typeParameters # <<>>
       /\ Count(writer, "returnType") > 0 <=> structure.returnType # NoText
       /\ \E i \in 1..Len(writer) :
              /\ writer[i] = Written("get", "get ")
              /\ writer[i + 1] = Written("get", structure.name)
       /\ Count(writer, "get") = 2
       /\ Count(writer, "open") = 1
       /\ Count(writer, "close") = 1
       /\ IF options.isAmbient \/ structure.isAbstract = "true"
          THEN /\ writer[Len(writer)] = Written("semicolon", ";")
               /\ Count(writer, "semicolon") = 1
               /\ Count(writer, "block") = 0
               /\ Count(writer, "body") = 0
          ELSE /\ writer[Len(writer)] = Written("block", "}")
               /\ Count(writer, "block") = 2
               /\ \E i \in 1..Len(writer) : writer[i] = Written("block", "{")
               /\ Count(writer, "semicolon") = 0

\* an abstract accessor was printed outside an ambient context
C8_Witness ==
    /\ writer # <<>>
    /\ structure.isAbstract = "true"
    /\ ~options.isAmbient
    /\ structure.bodyText # NoText
    /\ writer[Len(writer)].part = "semicolon"

====
